---- MODULE Spec2Model ----
(***************************************************************************)
(* Calorie tracker backend (src/backend/server.py): the two collections    *)
(* db.profiles and db.calorie_entries, the clock read by datetime.now, and *)
(* the HTTP handlers as atomic actions.  Every handler records the request *)
(* it served and the response it gave in resp.                             *)
(*                                                                         *)
(* Numbers.  Python floats are modelled as exact fixed-point reals:        *)
(* calorie quantities carry Scale units per kcal (the activity multipliers *)
(* are multiples of 1/40 and the BMR coefficients multiples of 1/1000, so  *)
(* every value the calculator produces is an integer in this unit);        *)
(* confidences are in hundredths.  Instants are clock ticks, TicksPerDay   *)
(* to the UTC day, so the last representable instant of a day is the tick  *)
(* before the next day's first.                                            *)
(***************************************************************************)
EXTENDS Integers, Sequences, FiniteSets, TLC

VARIABLES profiles, entries, now, nextId, resp

vars == <<profiles, entries, now, nextId, resp>>

\* ------------------------------------------------------------------ bounds
MaxTime == 2
MaxEntries == 2

\* ------------------------------------------------------------ representation
TicksPerDay == 2
Scale == 40 * 1000
Kcal(n) == n * Scale

Max(a, b) == IF a >= b THEN a ELSE b
Min(a, b) == IF a <= b THEN a ELSE b

\* dict.get(key, default)
Get(d, k, default) == IF k \in DOMAIN d THEN d[k] ELSE default

\* Python's None
None == [type |-> "none"]

\* --------------------------------------------------------- calorie calculator
\* str.lower() on the gender strings the model feeds in
Lower(s) ==
  CASE s = "Male" -> "male"
    [] s = "MALE" -> "male"
    [] s = "Female" -> "female"
    [] OTHER -> s

\* activity_multipliers, times 40
activity_multipliers ==
  [sedentary |-> 48, lightly_active |-> 55, moderately_active |-> 62,
   very_active |-> 69, extra_active |-> 76]

\* bmr in 1/1000 kcal
Bmr(age, gender, height, weight) ==
  IF Lower(gender) = "male"
    THEN 88362 + (13397 * weight) + (4799 * height) - (5677 * age)
    ELSE 447593 + (9247 * weight) + (3098 * height) - (4330 * age)

\* tdee in 1/Scale kcal: bmr/1000 * multiplier40/40
Tdee(age, gender, height, weight, activity_level) ==
  Bmr(age, gender, height, weight) * Get(activity_multipliers, activity_level, 55)

\* mutant: the 1200 kcal floor of the loss branch is left out
calculate_daily_calories_no_floor(age, gender, height, weight, activity_level, goal_weight) ==
  LET tdee == Tdee(age, gender, height, weight, activity_level) IN
  IF goal_weight < weight
    THEN tdee - Min(Kcal(500), Kcal((weight - goal_weight) * 50))
    ELSE IF goal_weight > weight
      THEN tdee + Min(Kcal(500), Kcal((goal_weight - weight) * 50))
      ELSE tdee

calculate_daily_calories(age, gender, height, weight, activity_level, goal_weight) ==
  LET tdee == Tdee(age, gender, height, weight, activity_level) IN
  IF goal_weight < weight
    THEN LET deficit == Min(Kcal(500), Kcal((weight - goal_weight) * 50))
         IN  Max(Kcal(1200), tdee - deficit)
    ELSE IF goal_weight > weight
      THEN LET surplus == Min(Kcal(500), Kcal((goal_weight - weight) * 50))
           IN  tdee + surplus
      ELSE tdee

\* ------------------------------------------------------------------- inputs
Users == {"u1", "u2"}

\* Request bodies of POST /api/profile (UserProfile).  daily_calorie_target and
\* created_at are optional fields the caller may fill in.
Biometrics ==
  { [name |-> "John Smith", age |-> 25, gender |-> "male", height |-> 175,
     weight |-> 70, activity_level |-> "moderately_active", goal_weight |-> 65,
     daily_calorie_target |-> None],
    [name |-> "Ann", age |-> 30, gender |-> "Female", height |-> 160,
     weight |-> 50, activity_level |-> "jogging", goal_weight |-> 55,
     daily_calorie_target |-> [type |-> "float", val |-> Kcal(9999)]] }

ProfileRequests(users) ==
  { [user_id |-> u, created_at |-> None] @@ b : u \in users, b \in Biometrics }

\* entry identifiers a caller may name: issued, since deleted, or not issued yet
EntryIds == 1..MaxEntries

MealTypeArgs == {"lunch", "brunch"}

\* ------------------------------------------------------------ db.profiles
\* find_one({"user_id": user_id}): a matching document, or None
ProfilesOf(user_id) == { p \in profiles : p.user_id = user_id }

find_profile(user_id) ==
  IF ProfilesOf(user_id) = {} THEN None
  ELSE CHOOSE p \in ProfilesOf(user_id) : TRUE

\* update_one({"user_id": ...}, {"$set": doc}, upsert=True): the first match gets
\* every field of doc, and doc is inserted when nothing matches
upsert_profile(doc) ==
  IF ProfilesOf(doc.user_id) = {} THEN profiles \cup {doc}
  ELSE LET old == find_profile(doc.user_id)
       IN  (profiles \ {old}) \cup {doc @@ old}

\* ------------------------------------------------------------------ handlers
Ok(op, req, body) == [op |-> op, status |-> 200, req |-> req, body |-> body]
Err(op, req, code, detail) ==
  [op |-> op, status |-> code, req |-> req, body |-> [detail |-> detail]]

\* mutant: a target sent by the caller is kept
StoredProfileKeepsTarget(profile) ==
  [profile EXCEPT
     !.created_at = [type |-> "datetime", val |-> now],
     !.daily_calorie_target =
        IF profile.daily_calorie_target # None THEN profile.daily_calorie_target
        ELSE [type |-> "float",
              val |-> calculate_daily_calories(profile.age, profile.gender,
                        profile.height, profile.weight, profile.activity_level,
                        profile.goal_weight)]]

\* POST /api/profile
StoredProfile(profile) ==
  [profile EXCEPT
     !.created_at = [type |-> "datetime", val |-> now],
     !.daily_calorie_target =
        [type |-> "float",
         val |-> calculate_daily_calories(profile.age, profile.gender,
                   profile.height, profile.weight, profile.activity_level,
                   profile.goal_weight)]]

create_or_update_profile(profile) ==
  LET doc == StoredProfile(profile) IN
  /\ profiles' = upsert_profile(doc)
  /\ resp' = Ok("create_or_update_profile", profile,
                [message |-> "Profile saved successfully",
                 daily_calorie_target |-> doc.daily_calorie_target])
  /\ UNCHANGED <<entries, now, nextId>>

\* GET /api/profile/{user_id}
get_profile(user_id) ==
  LET profile == find_profile(user_id) IN
  /\ resp' = IF profile = None
               THEN Err("get_profile", [user_id |-> user_id], 404, "Profile not found")
               ELSE Ok("get_profile", [user_id |-> user_id], profile)
  /\ UNCHANGED <<profiles, entries, now, nextId>>

\* ------------------------------------------------------------- the analyzer
\* What chat.send_message does: it raises (an exception, a timeout), or answers
\* with a text.  json_str is the text the extraction of lines 136-146 hands to
\* json.loads.
Dict(f) == [type |-> "dict", val |-> f]
List(s) == [type |-> "list", val |-> s]
IsDict(v) == v.type = "dict"

pizza == [name |-> "pizza", calories |-> Kcal(1500), confidence |-> 90]
salad == [name |-> "salad", calories |-> Kcal(500), confidence |-> 80]
nameless == [calories |-> Kcal(100), confidence |-> 70]

\* json.loads: the parsed value, or JSONDecodeError
JSONDecodeError == [type |-> "JSONDecodeError"]

json_loads(json_str) ==
  CASE json_str = "it looks like food" -> JSONDecodeError
    [] json_str = "[]" -> List(<<>>)
    [] json_str = "{}" -> Dict(<< >>)
    [] json_str = "{items, total, confidence}" ->
         Dict([food_items |-> <<pizza, salad>>, total_calories |-> Kcal(2500),
               analysis_confidence |-> 90])
    [] json_str = "{items, confidence}" ->
         Dict([food_items |-> <<pizza, salad>>, analysis_confidence |-> 80])
    [] json_str = "{item without name, total, confidence}" ->
         Dict([food_items |-> <<nameless>>, total_calories |-> Kcal(100),
               analysis_confidence |-> 70])

Raises == { [kind |-> "exception"], [kind |-> "timeout"] }
Unparseable == { [kind |-> "text", json_str |-> "it looks like food"] }
NotAnObject == { [kind |-> "text", json_str |-> "[]"] }
EmptyObject == { [kind |-> "text", json_str |-> "{}"] }
NoTotal == { [kind |-> "text", json_str |-> "{items, confidence}"] }
Nameless == { [kind |-> "text", json_str |-> "{item without name, total, confidence}"] }
WellFormed == { [kind |-> "text", json_str |-> "{items, total, confidence}"] }

AnalyzerResponses ==
  Raises \cup Unparseable \cup NotAnObject \cup EmptyObject \cup NoTotal
    \cup Nameless \cup WellFormed

Fallback(confidence, notes) ==
  Dict([food_items |-> << [name |-> "Unknown food", portion_size |-> "1 serving",
                           calories |-> Kcal(200), confidence |-> confidence] >>,
        total_calories |-> Kcal(200),
        analysis_confidence |-> confidence,
        notes |-> notes])

analyze_food_with_ai(response) ==
  IF response.kind # "text" THEN Fallback(20, "Error occurred")
  ELSE LET parsed == json_loads(response.json_str) IN
       IF parsed = JSONDecodeError THEN Fallback(30, "Analysis text")
       ELSE parsed

\* ------------------------------------------------------- db.calorie_entries
EntriesWithId(entry_id) == { e \in entries : e.entry_id = entry_id }

RECURSIVE Join(_)
Join(names) ==
  IF names = << >> THEN ""
  ELSE IF Len(names) = 1 THEN names[1]
  ELSE names[1] \o ", " \o Join(Tail(names))

\* POST /api/analyze-food
analyze_food(user_id, image_base64, response) ==
  LET req == [user_id |-> user_id, image_base64 |-> image_base64, analyzer |-> response]
      analysis_result == analyze_food_with_ai(response)
      failed == Err("analyze_food", req, 500, "Error analyzing food")
  IN
  IF ~IsDict(analysis_result)
    THEN \* AttributeError on .get, caught at line 242
         /\ resp' = failed
         /\ UNCHANGED <<profiles, entries, now, nextId>>
  ELSE LET items == Get(analysis_result.val, "food_items", << >>) IN
  IF \E i \in 1..Len(items) : "name" \notin DOMAIN items[i]
    THEN \* KeyError on item["name"], caught at line 242
         /\ resp' = failed
         /\ UNCHANGED <<profiles, entries, now, nextId>>
  ELSE LET entry_id == nextId
           food_name == Join([i \in 1..Len(items) |-> items[i]["name"]])
           total_calories == Get(analysis_result.val, "total_calories", 0)
           confidence == Get(analysis_result.val, "analysis_confidence", 50)
           calorie_entry ==
             [entry_id |-> entry_id, user_id |-> user_id, food_name |-> food_name,
              calories |-> total_calories, meal_type |-> "unspecified",
              image_base64 |-> image_base64, timestamp |-> now,
              confidence |-> confidence, analysis_details |-> analysis_result]
       IN
       /\ nextId <= MaxEntries
       /\ entries' = entries \cup {calorie_entry}
       /\ nextId' = nextId + 1
       /\ resp' = Ok("analyze_food", req,
                     [entry_id |-> entry_id, food_name |-> food_name,
                      calories |-> total_calories, confidence |-> confidence,
                      analysis_details |-> analysis_result,
                      message |-> "Food analyzed successfully"])
       /\ UNCHANGED <<profiles, now>>

\* PUT /api/entry/{entry_id}/meal-type
valid_meal_types == {"breakfast", "lunch", "dinner", "snack"}

\* mutant: the update also stamps the entry with the time of the update
update_meal_type_restamps(entry_id, meal_type) ==
  LET req == [entry_id |-> entry_id, meal_type |-> meal_type] IN
  IF meal_type \notin valid_meal_types
    THEN /\ resp' = Err("update_meal_type", req, 400, "Invalid meal type")
         /\ UNCHANGED <<profiles, entries, now, nextId>>
  ELSE IF EntriesWithId(entry_id) = {}
    THEN /\ resp' = Err("update_meal_type", req, 404, "Entry not found")
         /\ UNCHANGED <<profiles, entries, now, nextId>>
  ELSE LET old == CHOOSE e \in EntriesWithId(entry_id) : TRUE IN
       /\ entries' = (entries \ {old})
                        \cup {[old EXCEPT !.meal_type = meal_type, !.timestamp = now]}
       /\ resp' = Ok("update_meal_type", req, [message |-> "Meal type updated successfully"])
       /\ UNCHANGED <<profiles, now, nextId>>

\* mutant: the entry is looked up before the meal type is validated
update_meal_type_lookup_first(entry_id, meal_type) ==
  LET req == [entry_id |-> entry_id, meal_type |-> meal_type] IN
  IF EntriesWithId(entry_id) = {}
    THEN /\ resp' = Err("update_meal_type", req, 404, "Entry not found")
         /\ UNCHANGED <<profiles, entries, now, nextId>>
  ELSE IF meal_type \notin valid_meal_types
    THEN /\ resp' = Err("update_meal_type", req, 400, "Invalid meal type")
         /\ UNCHANGED <<profiles, entries, now, nextId>>
  ELSE LET old == CHOOSE e \in EntriesWithId(entry_id) : TRUE IN
       /\ entries' = (entries \ {old}) \cup {[old EXCEPT !.meal_type = meal_type]}
       /\ resp' = Ok("update_meal_type", req, [message |-> "Meal type updated successfully"])
       /\ UNCHANGED <<profiles, now, nextId>>

update_meal_type(entry_id, meal_type) ==
  LET req == [entry_id |-> entry_id, meal_type |-> meal_type] IN
  IF meal_type \notin valid_meal_types
    THEN /\ resp' = Err("update_meal_type", req, 400, "Invalid meal type")
         /\ UNCHANGED <<profiles, entries, now, nextId>>
  ELSE IF EntriesWithId(entry_id) = {}
    THEN /\ resp' = Err("update_meal_type", req, 404, "Entry not found")
         /\ UNCHANGED <<profiles, entries, now, nextId>>
  ELSE LET old == CHOOSE e \in EntriesWithId(entry_id) : TRUE IN
       /\ entries' = (entries \ {old}) \cup {[old EXCEPT !.meal_type = meal_type]}
       /\ resp' = Ok("update_meal_type", req, [message |-> "Meal type updated successfully"])
       /\ UNCHANGED <<profiles, now, nextId>>

\* mutant: deleted_count is not looked at
delete_entry_unchecked(entry_id) ==
  /\ entries' = entries \ EntriesWithId(entry_id)
  /\ resp' = Ok("delete_entry", [entry_id |-> entry_id],
                [message |-> "Entry deleted successfully"])
  /\ UNCHANGED <<profiles, now, nextId>>

\* DELETE /api/entry/{entry_id}
delete_entry(entry_id) ==
  LET req == [entry_id |-> entry_id] IN
  IF EntriesWithId(entry_id) = {}
    THEN /\ resp' = Err("delete_entry", req, 404, "Entry not found")
         /\ UNCHANGED <<profiles, entries, now, nextId>>
  ELSE LET old == CHOOSE e \in EntriesWithId(entry_id) : TRUE IN
       /\ entries' = entries \ {old}
       /\ resp' = Ok("delete_entry", req, [message |-> "Entry deleted successfully"])
       /\ UNCHANGED <<profiles, now, nextId>>

\* ---------------------------------------------------------------- the clock
\* datetime.date of an instant, and the first and last instants of a date
\* (datetime.min.time() and datetime.max.time())
DateOf(t) == t \div TicksPerDay
StartOfDay(d) == d * TicksPerDay
EndOfDay(d) == (d + 1) * TicksPerDay - 1

\* the date query parameter: absent, empty, an ISO date, or a text that
\* datetime.fromisoformat rejects with ValueError
Str(s) == [type |-> "str", val |-> s]
IsoDate(d) == [type |-> "str", val |-> "iso", date |-> d]
Date(d) == [type |-> "date", val |-> d]
ValueError == [type |-> "ValueError"]

fromisoformat_date(date) ==
  IF "date" \in DOMAIN date THEN Date(date.date) ELSE ValueError

\* Python truthiness of Optional[str]
Truthy(v) == v # None /\ v.val # ""

\* cursor.sort("timestamp", 1): the documents by ascending timestamp, documents
\* of equal timestamp in any order
SortedCursors(docs) ==
  { s \in [1..Cardinality(docs) -> docs] :
      /\ \A i, j \in 1..Cardinality(docs) : i # j => s[i] # s[j]
      /\ \A i, j \in 1..Cardinality(docs) : i < j => s[i].timestamp <= s[j].timestamp }

RECURSIVE SumCalories(_)
SumCalories(docs) ==
  IF docs = << >> THEN 0
  ELSE Get(docs[1], "calories", 0) + SumCalories(Tail(docs))

\* mutant: the window's end is exclusive
FindEntriesBeforeEnd(user_id, start_date, end_date) ==
  { e \in entries : /\ e.user_id = user_id
                    /\ e.timestamp >= start_date
                    /\ e.timestamp < end_date }

\* find({"user_id": ..., "timestamp": {"$gte": start, "$lte": end}})
FindEntries(user_id, start_date, end_date) ==
  { e \in entries : /\ e.user_id = user_id
                    /\ e.timestamp >= start_date
                    /\ e.timestamp <= end_date }

\* mutant: the profile check never fires
MissingNever(profile) == FALSE

\* "if not profile"
Missing(profile) == profile = None

\* mutant: the clamp at zero is left out
RemainingUnclamped(target_calories, total_calories) == target_calories - total_calories

\* remaining_calories
Remaining(target_calories, total_calories) == Max(0, target_calories - total_calories)

\* GET /api/daily-intake/{user_id}
get_daily_intake(user_id, date) ==
  LET req == [user_id |-> user_id, date |-> date]
      parsed == IF Truthy(date) THEN fromisoformat_date(date) ELSE Date(DateOf(now))
  IN
  /\ UNCHANGED <<profiles, entries, now, nextId>>
  /\ IF parsed = ValueError
       THEN resp' = Err("get_daily_intake", req, 400, "Invalid date format")
     ELSE LET target_date == parsed.val
              profile == find_profile(user_id)
          IN
     IF Missing(profile)
       THEN resp' = Err("get_daily_intake", req, 404, "User profile not found")
     ELSE LET start_date == StartOfDay(target_date)
              end_date == EndOfDay(target_date)
          IN
          \E cursor \in SortedCursors(FindEntries(user_id, start_date, end_date)) :
            LET total_calories == SumCalories(cursor)
                target_calories ==
                  Get(profile, "daily_calorie_target",
                      [type |-> "float", val |-> Kcal(2000)]).val
                remaining_calories == Remaining(target_calories, total_calories)
            IN resp' = Ok("get_daily_intake", req,
                          [date |-> target_date,
                           total_calories |-> total_calories,
                           target_calories |-> target_calories,
                           entries |-> cursor,
                           remaining_calories |-> remaining_calories])

\* GET /api/history/{user_id}
\* The module imports datetime and timezone from datetime, and nothing else
\* binds the name timedelta that line 326 reads.
timedelta_bound == FALSE

\* $group by $dateToString("%Y-%m-%d") of the timestamp, then $sort by _id
RECURSIVE SortedDates(_)
SortedDates(dates) ==
  IF dates = {} THEN << >>
  ELSE LET first == CHOOSE d \in dates : \A o \in dates : d <= o
       IN  <<first>> \o SortedDates(dates \ {first})

RECURSIVE SumOver(_)
SumOver(docs) ==
  IF docs = {} THEN 0
  ELSE LET e == CHOOSE x \in docs : TRUE
       IN  e.calories + SumOver(docs \ {e})

Aggregate(matched) ==
  LET dates == SortedDates({ DateOf(e.timestamp) : e \in matched })
  IN  [i \in 1..Len(dates) |->
         LET group == { e \in matched : DateOf(e.timestamp) = dates[i] }
         IN  [_id |-> dates[i],
              total_calories |-> SumOver(group),
              entry_count |-> Cardinality(group)]]

get_history(user_id, days) ==
  LET req == [user_id |-> user_id, days |-> days]
      profile == find_profile(user_id)
  IN
  /\ UNCHANGED <<profiles, entries, now, nextId>>
  /\ IF Missing(profile)
       THEN resp' = Err("get_history", req, 404, "User profile not found")
     ELSE IF ~timedelta_bound
       THEN \* NameError, not handled: the framework answers 500
            resp' = Err("get_history", req, 500, "Internal Server Error")
     ELSE LET end_date == now
              start_date == StartOfDay(DateOf(end_date)) - (days - 1) * TicksPerDay
              cursor == Aggregate(FindEntries(user_id, start_date, end_date))
              target_calories ==
                Get(profile, "daily_calorie_target",
                    [type |-> "float", val |-> Kcal(2000)]).val
          IN
          IF cursor # << >> /\ target_calories = 0
            THEN \* ZeroDivisionError, not handled
                 resp' = Err("get_history", req, 500, "Internal Server Error")
          ELSE resp' = Ok("get_history", req,
                 [history |->
                    [i \in 1..Len(cursor) |->
                       [date |-> cursor[i]._id,
                        total_calories |-> cursor[i].total_calories,
                        target_calories |-> target_calories,
                        entry_count |-> cursor[i].entry_count,
                        percentage_of_target |->
                          [times |-> 100, num |-> cursor[i].total_calories,
                           den |-> target_calories]]],
                  target_calories |-> target_calories,
                  period_days |-> days])

\* datetime.now(timezone.utc) moves on between requests
Tick ==
  /\ now < MaxTime
  /\ now' = now + 1
  /\ UNCHANGED <<profiles, entries, nextId, resp>>

Init ==
  /\ profiles = {}
  /\ entries = {}
  /\ now = 0
  /\ nextId = 1
  /\ resp = [op |-> "none", status |-> 0, req |-> None, body |-> None]

\* ------------------------------------------------------------ specifications
\* The food diary.  u1 saves a profile and queries; u2 only submits food, so
\* that u1's queries run beside another user's entries.  The analyzer answers
\* well.
SystemResponses == WellFormed
DateArgs == { None, Str("yesterday") } \cup { IsoDate(d) : d \in 0..DateOf(MaxTime) }
DayCounts == {1, 2}

Next ==
  \/ Tick
  \/ \E profile \in ProfileRequests({"u1"}) : create_or_update_profile(profile)
  \/ \E user_id \in Users, response \in SystemResponses :
       analyze_food(user_id, "img", response)
  \/ \E entry_id \in EntryIds, meal_type \in MealTypeArgs :
       update_meal_type(entry_id, meal_type)
  \/ \E user_id \in {"u1"}, date \in DateArgs : get_daily_intake(user_id, date)
  \/ \E entry_id \in EntryIds : delete_entry(entry_id)
  \/ \E user_id \in {"u1"}, days \in DayCounts : get_history(user_id, days)

Spec == Init /\ [][Next]_vars

\* Profile writes and reads alone, for every user and request body.
NextProfile ==
  \/ Tick
  \/ \E profile \in ProfileRequests(Users) : create_or_update_profile(profile)
  \/ \E user_id \in Users : get_profile(user_id)

SpecProfile == Init /\ [][NextProfile]_vars

\* Food submissions alone, for every behaviour of the analyzer.
NextAnalyzer ==
  \/ Tick
  \/ \E user_id \in Users, response \in AnalyzerResponses :
       analyze_food(user_id, "img", response)
  \/ \E entry_id \in EntryIds : delete_entry(entry_id)

SpecAnalyzer == Init /\ [][NextAnalyzer]_vars

\* ------------------------------------------------------------------- claims
Replied(op) == resp.op = op
Detail(r) == r.body.detail
HasProfile(user_id) == ProfilesOf(user_id) # {}

RECURSIVE CaloriesOf(_)
CaloriesOf(docs) ==
  IF docs = {} THEN 0
  ELSE LET e == CHOOSE x \in docs : TRUE IN e.calories + CaloriesOf(docs \ {e})

\* C1: AnalyzeFood never fails outward: whatever the analyzer does (exception,
\* timeout, non-JSON text, JSON that is not the expected object, an item without
\* a name, a well-formed result), the reply is a success carrying an entry
\* record, and that entry is stored.
C1_AnalyzeFoodNeverFails ==
  Replied("analyze_food") =>
    /\ resp.status = 200
    /\ \E e \in entries :
         /\ e.entry_id = resp.body.entry_id
         /\ e.user_id = resp.req.user_id
         /\ e.food_name = resp.body.food_name
         /\ e.calories = resp.body.calories
         /\ e.confidence = resp.body.confidence

\* C2: when the analyzer output is not the structured object (a list of food
\* items plus an overall confidence), the entry AnalyzeFood creates is the
\* fallback record: "Unknown food", 200 kcal, confidence 0.2 after an exception
\* or timeout and 0.3 after an answer that is not that object.
C2_NotStructured == Raises \cup Unparseable \cup NotAnObject \cup EmptyObject

C2_FallbackRecord ==
  ( /\ Replied("analyze_food")
    /\ resp.status = 200
    /\ resp.req.analyzer \in C2_NotStructured ) =>
    \E e \in entries :
      /\ e.entry_id = resp.body.entry_id
      /\ e.food_name = "Unknown food"
      /\ e.calories = Kcal(200)
      /\ e.confidence = IF resp.req.analyzer \in Raises THEN 20 ELSE 30

\* C3: the remaining calories GetDailyIntake returns are max(0, target - total)
\* for the stored profile's target and the day's total, so never negative, also
\* when the total exceeds the target.
C3_RemainingClamped ==
  (Replied("get_daily_intake") /\ resp.status = 200) =>
    /\ HasProfile(resp.req.user_id)
    /\ \A p \in ProfilesOf(resp.req.user_id) :
         LET target == p.daily_calorie_target.val
             total == resp.body.total_calories
         IN  /\ resp.body.target_calories = target
             /\ resp.body.remaining_calories >= 0
             /\ resp.body.remaining_calories =
                  IF total >= target THEN 0 ELSE target - total

\* C3 witness: a day whose total exceeds the target, answered with remaining 0
C3_Witness ==
  /\ Replied("get_daily_intake")
  /\ resp.status = 200
  /\ \E p \in ProfilesOf(resp.req.user_id) :
       resp.body.total_calories > p.daily_calorie_target.val
  /\ resp.body.remaining_calories = 0

\* C4: GetDailyIntake(user, date) lists exactly the stored entries of that user
\* whose timestamp falls on that UTC date (first and last instant of the day
\* included), each once, by ascending timestamp, and its total is the sum of
\* their calories; other users' entries, other dates and deleted entries count
\* for nothing.
C4_DailyIntakeExact ==
  (Replied("get_daily_intake") /\ resp.status = 200) =>
    LET listed == resp.body.entries
        expected == { e \in entries : /\ e.user_id = resp.req.user_id
                                      /\ e.timestamp >= resp.body.date * TicksPerDay
                                      /\ e.timestamp < (resp.body.date + 1) * TicksPerDay }
    IN  /\ { listed[i] : i \in 1..Len(listed) } = expected
        /\ Len(listed) = Cardinality(expected)
        /\ \A i, j \in 1..Len(listed) :
             i < j => listed[i].timestamp <= listed[j].timestamp
        /\ resp.body.total_calories = CaloriesOf(expected)
        /\ "date" \in DOMAIN resp.req.date => resp.body.date = resp.req.date.date

\* C4 witness: two entries listed, made at the first and the last instant of
\* the queried day, and summed
C4_Witness ==
  /\ Replied("get_daily_intake")
  /\ resp.status = 200
  /\ Len(resp.body.entries) = 2
  /\ resp.body.entries[1].timestamp = StartOfDay(resp.body.date)
  /\ resp.body.entries[2].timestamp = EndOfDay(resp.body.date)
  /\ resp.body.total_calories = Kcal(5000)

\* C5 as stated: GetDailyIntake and GetHistory for a user without a profile fail
\* with ProfileNotFound, whatever the date argument and the day count.
C5_Original ==
  ( /\ Replied("get_daily_intake") \/ Replied("get_history")
    /\ ~HasProfile(resp.req.user_id) ) =>
    /\ resp.status = 404
    /\ Detail(resp) = "User profile not found"

\* C5 as amended: for a user without a profile GetHistory fails with
\* ProfileNotFound for every day count, and GetDailyIntake fails with
\* ProfileNotFound for every absent, empty or well-formed date and with
\* InvalidDateFormat for a malformed one (the date is parsed before the profile
\* is loaded); neither ever answers with a result.
C5_MalformedDate(req) == Truthy(req.date) /\ "date" \notin DOMAIN req.date

C5_NoProfileIsAnError ==
  ( /\ Replied("get_daily_intake") \/ Replied("get_history")
    /\ ~HasProfile(resp.req.user_id) ) =>
    IF Replied("get_daily_intake") /\ C5_MalformedDate(resp.req)
      THEN resp.status = 400 /\ Detail(resp) = "Invalid date format"
      ELSE resp.status = 404 /\ Detail(resp) = "User profile not found"

\* C5 witness: a daily query refused for want of a profile although the user
\* has entries that an empty-profile answer could have summed
C5_Witness ==
  /\ Replied("get_daily_intake")
  /\ resp.status = 404
  /\ ~HasProfile(resp.req.user_id)
  /\ \E e \in entries : e.user_id = resp.req.user_id

\* C6: with a profile and no entries, GetDailyIntake answers total 0 and an
\* empty list, and GetHistory answers no rows; neither is an error.
C6_EmptyIsNotAnError ==
  /\ ( /\ Replied("get_daily_intake")
       /\ HasProfile(resp.req.user_id)
       /\ ~C5_MalformedDate(resp.req)
       /\ \A e \in entries : e.user_id # resp.req.user_id ) =>
       /\ resp.status = 200
       /\ resp.body.total_calories = 0
       /\ resp.body.entries = << >>
  /\ ( /\ Replied("get_history")
       /\ HasProfile(resp.req.user_id)
       /\ \A e \in entries : e.user_id # resp.req.user_id ) =>
       /\ resp.status = 200
       /\ resp.body.history = << >>

\* C7: SetMealType with a meal type outside {breakfast, lunch, dinner, snack}
\* fails with InvalidMealType whether or not the entry exists; with a valid meal
\* type and an identifier that has no entry it fails with EntryNotFound; either
\* failure leaves every entry and profile as it was.
C7_MealTypes == {"breakfast", "lunch", "dinner", "snack"}

C7_SetMealTypeFailures ==
  [][ (resp'.op = "update_meal_type" /\ resp' # resp) =>
        LET req == resp'.req IN
        /\ req.meal_type \notin C7_MealTypes =>
             /\ resp'.status = 400
             /\ Detail(resp') = "Invalid meal type"
             /\ entries' = entries /\ profiles' = profiles
        /\ (req.meal_type \in C7_MealTypes /\ EntriesWithId(req.entry_id) = {}) =>
             /\ resp'.status = 404
             /\ Detail(resp') = "Entry not found"
             /\ entries' = entries /\ profiles' = profiles
    ]_vars

\* C7 witness: an invalid meal type refused for an entry that exists
C7_Witness ==
  /\ Replied("update_meal_type")
  /\ resp.status = 400
  /\ resp.req.meal_type \notin C7_MealTypes
  /\ EntriesWithId(resp.req.entry_id) # {}

\* C8: DeleteEntry of an identifier without an entry fails with EntryNotFound
\* and changes nothing; DeleteEntry of a stored entry succeeds and removes it,
\* so deleting the same identifier again straight away fails with EntryNotFound.
C8_DeleteEntry ==
  [][ (resp'.op = "delete_entry" /\ resp' # resp) =>
        LET entry_id == resp'.req.entry_id IN
        /\ EntriesWithId(entry_id) = {} =>
             /\ resp'.status = 404
             /\ Detail(resp') = "Entry not found"
             /\ entries' = entries /\ profiles' = profiles
        /\ EntriesWithId(entry_id) # {} =>
             /\ resp'.status = 200
             /\ entries' = entries \ EntriesWithId(entry_id)
             /\ profiles' = profiles
        /\ (Replied("delete_entry") /\ resp.status = 200 /\ resp.req = resp'.req) =>
             resp'.status = 404
    ]_vars

\* C8 witness: an identifier that was issued and deleted is deleted again, and
\* the second delete is refused
C8_Witness ==
  /\ Replied("delete_entry")
  /\ resp.status = 404
  /\ resp.req.entry_id < nextId
  /\ EntriesWithId(resp.req.entry_id) = {}

\* C9: SaveProfile is idempotent: a second call with the same input leaves the
\* stored profiles as the first call left them, in every stored field, and
\* returns the same target.
C9_SaveProfileIdempotent ==
  [][ ( /\ Replied("create_or_update_profile")
        /\ resp'.op = "create_or_update_profile"
        /\ resp'.req = resp.req ) =>
        /\ profiles' = profiles
        /\ resp'.body.daily_calorie_target = resp.body.daily_calorie_target
    ]_vars

\* C10: for a user with a profile, GetHistory(user, N) answers with one row per
\* UTC date on which the user has an entry between the start of the day N-1 days
\* ago and now, by strictly ascending date, and no row for any other date.
C10_HistoryRows ==
  [][ ( /\ resp'.op = "get_history"
        /\ resp' # resp
        /\ HasProfile(resp'.req.user_id) ) =>
        /\ resp'.status = 200
        /\ LET rows == resp'.body.history
               first == (now \div TicksPerDay - (resp'.req.days - 1)) * TicksPerDay
               dates == { e.timestamp \div TicksPerDay :
                            e \in { x \in entries : /\ x.user_id = resp'.req.user_id
                                                    /\ x.timestamp >= first
                                                    /\ x.timestamp <= now } }
           IN  /\ { rows[i].date : i \in 1..Len(rows) } = dates
               /\ \A i, j \in 1..Len(rows) : i < j => rows[i].date < rows[j].date
    ]_vars

\* ------------------------------------------------- the calculator on a grid
\* Profile writes of one user over a grid of biometrics: both BMR formulas, a
\* known, an unknown and the lowest activity level, and goal weights below,
\* at and above the weight, within and beyond the 500 kcal cap.
CalculatorRequests ==
  { [user_id |-> "u1", name |-> "grid", created_at |-> None,
     daily_calorie_target |-> None,
     age |-> a, gender |-> g, height |-> h, weight |-> w,
     activity_level |-> l, goal_weight |-> w + dw] :
      a \in {25, 80}, g \in {"male", "Female"}, h \in {140, 175}, w \in {40, 70},
      l \in {"sedentary", "moderately_active", "jogging"},
      dw \in {0 - 20, 0 - 5, 0, 5, 20} }

NextCalculator ==
  \/ \E profile \in CalculatorRequests : create_or_update_profile(profile)
  \/ get_profile("u1")

SpecCalculator == Init /\ [][NextCalculator]_vars

\* The goal adjustment of the claim, on a TDEE t
C11_Adjusted(t, weight, goal_weight) ==
  IF goal_weight < weight
    THEN LET d == (weight - goal_weight) * 50
             deficit == IF d > 500 THEN 500 ELSE d
             reduced == t - deficit * Scale
         IN  IF reduced < 1200 * Scale THEN 1200 * Scale ELSE reduced
  ELSE IF goal_weight > weight
    THEN LET g == (goal_weight - weight) * 50
             surplus == IF g > 500 THEN 500 ELSE g
         IN  t + surplus * Scale
  ELSE t

C11_Example(req) ==
  /\ req.age = 25 /\ Lower(req.gender) = "male" /\ req.height = 175
  /\ req.weight = 70 /\ req.activity_level = "moderately_active"
  /\ req.goal_weight = 65

C11_Formula ==
  LET req == resp.req
      target == resp.body.daily_calorie_target.val
      tdee == Tdee(req.age, req.gender, req.height, req.weight, req.activity_level)
  IN  /\ target = C11_Adjusted(tdee, req.weight, req.goal_weight)
      /\ req.goal_weight < req.weight => target >= 1200 * Scale

\* C11 as stated: the target is the goal adjustment of TDEE (loss: max(1200,
\* TDEE - min(500, 50 per kg)), gain: TDEE + min(500, 50 per kg), equal: TDEE),
\* and for 25, male, 175 cm, 70 kg, moderately_active, goal 65 kg it is
\* 2423.63375 kcal (96945350 units of 1/40000 kcal).
C11_Original ==
  Replied("create_or_update_profile") =>
    /\ C11_Formula
    /\ C11_Example(resp.req) => resp.body.daily_calorie_target.val = 96945350

\* C11 as amended: the same goal adjustment, the loss branch never below 1200;
\* for the example profile the deficit is 250 and the target is 2422.2806 kcal
\* (96891224 units): BMR is 1724.052 and TDEE 2672.2806.
C11_CalorieTarget ==
  Replied("create_or_update_profile") =>
    /\ C11_Formula
    /\ C11_Example(resp.req) =>
         /\ Bmr(25, "male", 175, 70) = 1724052
         /\ (resp.req.weight - resp.req.goal_weight) * 50 = 250
         /\ resp.body.daily_calorie_target.val = 96891224

\* C11 witness: a loss profile whose TDEE less the deficit is under 1200 kcal
\* and whose target is the floor
C11_Witness ==
  /\ Replied("create_or_update_profile")
  /\ resp.req.goal_weight < resp.req.weight
  /\ Tdee(resp.req.age, resp.req.gender, resp.req.height, resp.req.weight,
          resp.req.activity_level) < 1200 * Scale
  /\ resp.body.daily_calorie_target.val = 1200 * Scale

\* C12: after any sequence of SaveProfile calls every stored profile's target is
\* the calculator's value for that profile's own age, gender, height, weight,
\* activity level and goal weight; a target sent by the caller is never stored;
\* each user identifier has at most one stored profile, and the last write
\* replaces every biometric field of the earlier one.
C12_Biometrics ==
  {"name", "age", "gender", "height", "weight", "activity_level", "goal_weight"}

C12_TargetFromBiometrics ==
  /\ \A p \in profiles :
       /\ p.daily_calorie_target.type = "float"
       /\ p.daily_calorie_target.val =
            calculate_daily_calories(p.age, p.gender, p.height, p.weight,
                                     p.activity_level, p.goal_weight)
  /\ \A p, q \in profiles : p.user_id = q.user_id => p = q
  /\ Replied("create_or_update_profile") =>
       /\ HasProfile(resp.req.user_id)
       /\ \A p \in ProfilesOf(resp.req.user_id) :
            /\ \A f \in C12_Biometrics : p[f] = resp.req[f]
            /\ resp.body.daily_calorie_target = p.daily_calorie_target
            /\ resp.req.daily_calorie_target # None =>
                 p.daily_calorie_target # resp.req.daily_calorie_target

\* C12 witness: both users have a profile, and the last write, made after the
\* clock moved on, carried a target of its own that was not stored
C12_Witness ==
  /\ Replied("create_or_update_profile")
  /\ resp.req.daily_calorie_target # None
  /\ Cardinality(profiles) = 2
  /\ \E p \in ProfilesOf(resp.req.user_id) :
       /\ p.created_at.val > 0
       /\ p.daily_calorie_target.val # resp.req.daily_calorie_target.val

\* C13: a successful SetMealType changes the meal type of the one entry with
\* the given identifier and nothing else: that entry's owner, food name,
\* calories, confidence and timestamp, every other entry and every profile stay
\* as they were, so every user's every day lists the same entries with the same
\* total.
C13_Bucket(docs, user_id, date) ==
  { e \in docs : /\ e.user_id = user_id
                 /\ e.timestamp >= date * TicksPerDay
                 /\ e.timestamp < (date + 1) * TicksPerDay }

C13_OnlyMealTypeChanges ==
  [][ (resp'.op = "update_meal_type" /\ resp'.status = 200 /\ resp' # resp) =>
        /\ \E old \in entries :
             /\ old.entry_id = resp'.req.entry_id
             /\ entries' =
                  (entries \ {old}) \cup {[old EXCEPT !.meal_type = resp'.req.meal_type]}
        /\ profiles' = profiles
        /\ \A u \in Users, d \in 0..MaxTime :
             /\ { e.entry_id : e \in C13_Bucket(entries', u, d) }
                  = { e.entry_id : e \in C13_Bucket(entries, u, d) }
             /\ CaloriesOf(C13_Bucket(entries', u, d))
                  = CaloriesOf(C13_Bucket(entries, u, d))
    ]_vars

\* C13 witness: of two stored entries one has been reclassified, the other
\* still has the meal type it was created with
C13_Witness ==
  /\ Replied("update_meal_type")
  /\ resp.status = 200
  /\ \E e, o \in entries :
       /\ e.entry_id = resp.req.entry_id
       /\ e.meal_type = resp.req.meal_type
       /\ e.timestamp < now
       /\ o.entry_id # e.entry_id
       /\ o.meal_type = "unspecified"

\* C14: for a structured analyzer result the created entry's food name is the
\* item names joined by ", " in the order returned, its calories are the
\* analyzer's total when there is one and the sum of the item calories when
\* there is none, and its meal type is "unspecified".
RECURSIVE C14_ItemCalories(_)
C14_ItemCalories(items) ==
  IF items = << >> THEN 0 ELSE items[1].calories + C14_ItemCalories(Tail(items))

C14_StructuredEntry ==
  ( /\ Replied("analyze_food")
    /\ resp.status = 200
    /\ resp.req.analyzer \in WellFormed \cup NoTotal ) =>
    LET result == json_loads(resp.req.analyzer.json_str).val IN
    \E e \in entries :
      /\ e.entry_id = resp.body.entry_id
      /\ e.food_name = "pizza, salad"
      /\ e.calories = IF "total_calories" \in DOMAIN result
                        THEN result.total_calories
                        ELSE C14_ItemCalories(result.food_items)
      /\ e.meal_type = "unspecified"
====
